---- MODULE Spec2Model ----
(***************************************************************************)
(* Model of atlas_mcp_server.py: the tools analyze_disk_usage,             *)
(* find_large_files, cleanup_recommendations and system_health_check.      *)
(*                                                                         *)
(* Representation                                                          *)
(*   - a string is a sequence of one-character strings;                    *)
(*   - a path is [comps |-> sequence of names, trail |-> BOOLEAN]: the     *)
(*     components and whether the string ends with a separator;            *)
(*   - the file system fs is [dirs, meta]: dirs maps the components of     *)
(*     every listable directory to its listing [dirs, files] in scandir    *)
(*     order, meta maps the components of every file to                    *)
(*     [size, mtime, sizeFails, mtimeFails]; sizeFails / mtimeFails say    *)
(*     that os.path.getsize / os.path.getmtime raises OSError;             *)
(*   - sizes are bytes, size_mb values are hundredths of a MB, ages are    *)
(*     tenths of a day, the running potential_savings_mb is thousandths    *)
(*     of a MB, percentages are hundredths of a percent.                   *)
(***************************************************************************)
EXTENDS Integers, Sequences, FiniteSets, TLC

VARIABLES
    os_name,        \* os.name: "posix" or "nt"
    fs,             \* the file system the walkers read
    disks,          \* shutil.disk_usage per mount: comps -> [total, used, free]
    provider,       \* what psutil delivers: [fails, cpu, mem]
    result,         \* the record the last tool call returned
    locals,         \* local variables of the last walker call, before truncation
    pc,             \* position of system_health_check
    system_stats,   \* system_health_check locals
    disk_analysis,
    health_score,
    issues,
    recommendations,
    status

vars == <<os_name, fs, disks, provider, result, locals, pc, system_stats,
          disk_analysis, health_score, issues, recommendations, status>>

healthVars == <<pc, system_stats, disk_analysis, health_score, issues,
                recommendations, status>>

----------------------------------------------------------------------------
(* Arithmetic *)

KB == 1024
MB == 1024 * 1024
GB == 1024 * 1024 * 1024

\* round(): nearest integer of n / d, ties to even (n >= 0, d > 0).
RoundHalfEven(n, d) ==
    LET q == n \div d
        r == n % d
    IN  IF 2 * r < d THEN q
        ELSE IF 2 * r > d THEN q + 1
        ELSE IF q % 2 = 0 THEN q ELSE q + 1

\* round(size / (1024**2), 2) in hundredths of a MB.  size * 100 / 2^20 is
\* split into whole MB and remainder so that no product leaves 32 bits.
SizeMb(size) ==
    (size \div MB) * 100 + RoundHalfEven((size % MB) * 25, 262144)

\* round(total / (1024**3), 2) in hundredths of a GB, for total < 2^31.
\* total * 100 / 2^30 = (x + rem / 1024) / 2^20 with x, rem as below.
TotalSizeGb(total) ==
    LET h   == total \div KB
        l   == total % KB
        x   == h * 100 + ((l * 100) \div KB)
        rem == (l * 100) % KB
        q   == x \div MB
        f   == x % MB
    IN  IF f < MB \div 2 THEN q
        ELSE IF f > MB \div 2 \/ rem > 0 THEN q + 1
        ELSE IF q % 2 = 0 THEN q ELSE q + 1

Min(a, b) == IF a < b THEN a ELSE b
Max(a, b) == IF a > b THEN a ELSE b

----------------------------------------------------------------------------
(* Strings *)

\* str.lower() on one character.
LowerChar(c) ==
    CASE c = "A" -> "a" [] c = "B" -> "b" [] c = "C" -> "c" [] c = "D" -> "d"
      [] c = "E" -> "e" [] c = "F" -> "f" [] c = "G" -> "g" [] c = "H" -> "h"
      [] c = "I" -> "i" [] c = "J" -> "j" [] c = "K" -> "k" [] c = "L" -> "l"
      [] c = "M" -> "m" [] c = "N" -> "n" [] c = "O" -> "o" [] c = "P" -> "p"
      [] c = "Q" -> "q" [] c = "R" -> "r" [] c = "S" -> "s" [] c = "T" -> "t"
      [] c = "U" -> "u" [] c = "V" -> "v" [] c = "W" -> "w" [] c = "X" -> "x"
      [] c = "Y" -> "y" [] c = "Z" -> "z" [] OTHER -> c

\* str.lower()
Lower(s) == [i \in 1..Len(s) |-> LowerChar(s[i])]

\* sub in s
Contains(s, sub) ==
    \E i \in 0..(Len(s) - Len(sub)) :
        \A j \in 1..Len(sub) : s[i + j] = sub[j]

\* s.endswith(suffix)
EndsWith(s, suffix) ==
    /\ Len(suffix) <= Len(s)
    /\ \A j \in 1..Len(suffix) : s[Len(s) - Len(suffix) + j] = suffix[j]

\* s.count(c) for a one-character c
RECURSIVE Count(_, _)
Count(s, c) ==
    IF s = <<>> THEN 0
    ELSE (IF Head(s) = c THEN 1 ELSE 0) + Count(Tail(s), c)

\* s.rfind("."): the last index of a dot, 0 when there is none (1-based).
LastDot(s) ==
    LET ds == {i \in 1..Len(s) : s[i] = "."}
    IN  IF ds = {} THEN 0 ELSE CHOOSE i \in ds : \A j \in ds : j <= i

\* The first index that is not a leading dot.
FirstNonDot(s) ==
    LET ns == {i \in 1..Len(s) : s[i] # "."}
    IN  IF ns = {} THEN Len(s) + 1 ELSE CHOOSE i \in ns : \A j \in ns : i <= j

\* pathlib: Path(p).suffix of the final component.
Suffix(name) ==
    LET i == LastDot(name)
    IN  IF 1 < i /\ i < Len(name) THEN SubSeq(name, i, Len(name)) ELSE <<>>

\* os.path.splitext(name)[0]: the dot must follow a character that is not a
\* leading dot.
SplitExtBase(name) ==
    LET i == LastDot(name)
    IN  IF i > FirstNonDot(name) THEN SubSeq(name, 1, i - 1) ELSE name

----------------------------------------------------------------------------
(* Paths *)

\* os.sep
Sep == IF os_name = "nt" THEN "\\" ELSE "/"

RECURSIVE JoinComps(_, _)
JoinComps(comps, sep) ==
    IF comps = <<>> THEN <<>>
    ELSE IF Len(comps) = 1 THEN comps[1]
    ELSE comps[1] \o <<sep>> \o JoinComps(Tail(comps), sep)

\* The string a path stands for: "/a/b" on posix, "C:\a\b" on nt (the first
\* component is the drive there), with a trailing separator when trail.
PathStr(p) ==
    (IF os_name = "nt" THEN <<>> ELSE <<Sep>>)
        \o JoinComps(p.comps, Sep)
        \o (IF p.trail THEN <<Sep>> ELSE <<>>)

\* os.path.join(root, name)
PathJoin(root, name) == [comps |-> Append(root.comps, name), trail |-> FALSE]

----------------------------------------------------------------------------
(* File system access *)

\* time.time() at the call, in seconds.
Now == 500 * 86400

\* os.scandir succeeds on the directory (os.walk swallows the error and
\* yields nothing otherwise, as onerror is None).
Listable(f, p) == p.comps \in DOMAIN f.dirs

\* os.path.getsize(p) raises OSError
GetsizeFails(f, p) == p.comps \notin DOMAIN f.meta \/ f.meta[p.comps].sizeFails

\* The modification-time lookup taken as never failing.
GetmtimeNeverFails(f, p) == FALSE

\* os.path.getmtime(p) raises OSError
GetmtimeFails(f, p) == p.comps \notin DOMAIN f.meta \/ f.meta[p.comps].mtimeFails

\* age_days = round((time.time() - mtime) / 86400, 1), in tenths of a day.
AgeDays(mtime) == RoundHalfEven((Now - mtime) * 10, 86400)

\* time.ctime(mtime): the formatted time stamp.
Ctime(mtime) == <<"ctime", mtime>>

\* list.sort(key = size_mb, reverse = True): stable, equal keys keep their
\* order.  InsertDesc puts x behind every element whose key is >= x's.
RECURSIVE InsertDesc(_, _)
InsertDesc(sorted, x) ==
    IF sorted = <<>> THEN <<x>>
    ELSE IF Head(sorted).size_mb >= x.size_mb
         THEN <<Head(sorted)>> \o InsertDesc(Tail(sorted), x)
         ELSE <<x>> \o sorted

\* The sort left out: the list stays in collection order.
SortDescSkipped(s) == s

RECURSIVE SortDesc(_)
SortDesc(s) ==
    IF s = <<>> THEN <<>>
    ELSE InsertDesc(SortDesc(SubSeq(s, 1, Len(s) - 1)), s[Len(s)])

\* The truncation left out.
SliceNothing(s, n) == s

\* s[:n], Python's slice: a negative n drops the last -n elements.
SlicePrefix(s, n) ==
    IF n >= 0 THEN SubSeq(s, 1, Min(n, Len(s)))
    ELSE SubSeq(s, 1, Max(Len(s) + n, 0))

\* "error" in record
HasError(r) == "error" \in DOMAIN r

----------------------------------------------------------------------------
(* find_large_files *)

restricted_dirs ==
    <<<<"w", "i", "n", "d", "o", "w", "s">>,
       <<"p", "r", "o", "g", "r", "a", "m", " ", "f", "i", "l", "e", "s">>,
       <<"p", "r", "o", "g", "r", "a", "m", " ", "f", "i", "l", "e", "s", " ", "(", "x", "8", "6", ")">>,
       <<"$", "r", "e", "c", "y", "c", "l", "e", ".", "b", "i", "n">>>>

VideoExts ==
    {<<".", "m", "p", "4">>, <<".", "a", "v", "i">>, <<".", "m", "k", "v">>, <<".", "m", "o", "v">>, <<".", "w", "m", "v">>}
ArchiveExts ==
    {<<".", "z", "i", "p">>, <<".", "r", "a", "r">>, <<".", "7", "z">>, <<".", "t", "a", "r">>, <<".", "g", "z">>}
LogTxtExts ==
    {<<".", "l", "o", "g">>, <<".", "t", "x", "t">>}
ImageExts ==
    {<<".", "j", "p", "g">>, <<".", "p", "n", "g">>, <<".", "b", "m", "p">>, <<".", "g", "i", "f">>, <<".", "t", "i", "f", "f">>}
DocumentExts ==
    {<<".", "p", "d", "f">>, <<".", "d", "o", "c">>, <<".", "d", "o", "c", "x">>}

FileType(extension) ==
    IF extension \in VideoExts THEN "video"
    ELSE IF extension \in ArchiveExts THEN "archive"
    ELSE IF extension \in LogTxtExts THEN "log"
    ELSE IF extension \in ImageExts THEN "image"
    ELSE IF extension \in DocumentExts THEN "document"
    ELSE "other"

\* The security check: os.name == 'nt' and some restricted name is a
\* substring of directory.lower().
IsRestricted(directory) ==
    /\ os_name = "nt"
    /\ \E i \in 1..Len(restricted_dirs) :
           Contains(Lower(PathStr(directory)), restricted_dirs[i])

LargeFileRecord(f, file_path) ==
    LET m         == f.meta[file_path.comps]
        extension == Lower(Suffix(file_path.comps[Len(file_path.comps)]))
    IN  [path          |-> file_path,
         size_mb       |-> SizeMb(m.size),
         age_days      |-> AgeDays(m.mtime),
         extension     |-> extension,
         file_type     |-> FileType(extension),
         last_modified |-> Ctime(m.mtime)]

\* The body of "for file in files": st is [large_files, total_large_size,
\* skipped, stop]; skipped lists the paths whose except branch was taken.
\* The loop ends at the break once 2 * max_results files are collected.
RECURSIVE ScanLargeFiles(_, _, _, _, _, _)
ScanLargeFiles(f, root, files, st, min_size_bytes, max_results) ==
    IF files = <<>> THEN st
    ELSE
      LET file_path == PathJoin(root, Head(files))
          skip == [st EXCEPT !.skipped = Append(@, file_path)]
      IN  IF GetsizeFails(f, file_path)
          THEN ScanLargeFiles(f, root, Tail(files), skip, min_size_bytes, max_results)
          ELSE IF f.meta[file_path.comps].size > min_size_bytes
          THEN IF GetmtimeFails(f, file_path)
               THEN ScanLargeFiles(f, root, Tail(files), skip, min_size_bytes,
                                   max_results)
               ELSE LET st2 == [st EXCEPT
                                  !.large_files =
                                      Append(@, LargeFileRecord(f, file_path)),
                                  !.total_large_size =
                                      @ + f.meta[file_path.comps].size]
                    IN  IF Len(st2.large_files) >= max_results * 2
                        THEN st2
                        ELSE ScanLargeFiles(f, root, Tail(files), st2,
                                            min_size_bytes, max_results)
          ELSE ScanLargeFiles(f, root, Tail(files), st, min_size_bytes, max_results)

\* "for root, dirs, files in os.walk(directory)": one directory, then its
\* subdirectories in listing order; stop is the break of the outer loop.
RECURSIVE LargeWalk(_, _, _, _, _)
RECURSIVE LargeWalkDirs(_, _, _, _, _, _)
LargeWalk(f, root, st, min_size_bytes, max_results) ==
    IF ~Listable(f, root) THEN st
    ELSE
      LET st1 == ScanLargeFiles(f, root, f.dirs[root.comps].files,
                                [st EXCEPT !.visited = Append(@, root)],
                                min_size_bytes, max_results)
      IN  IF Len(st1.large_files) >= max_results * 2
          THEN [st1 EXCEPT !.stop = TRUE]
          ELSE LargeWalkDirs(f, root, f.dirs[root.comps].dirs, st1,
                             min_size_bytes, max_results)

LargeWalkDirs(f, root, dirs, st, min_size_bytes, max_results) ==
    IF dirs = <<>> \/ st.stop THEN st
    ELSE LargeWalkDirs(f, root, Tail(dirs),
                       LargeWalk(f, PathJoin(root, Head(dirs)), st,
                                 min_size_bytes, max_results),
                       min_size_bytes, max_results)

\* The recommendations of find_large_files, computed on the truncated list.
LargeRecommendations(large_files, total_large_size) ==
    LET video_files == SelectSeq(large_files, LAMBDA r : r.file_type = "video")
        old_files   == SelectSeq(large_files, LAMBDA r : r.age_days > 3650)
    IN  (IF total_large_size > GB THEN <<<<"archive_or_compress">>>> ELSE <<>>)
        \o (IF video_files # <<>> THEN <<<<"video", Len(video_files)>>>> ELSE <<>>)
        \o (IF old_files # <<>> THEN <<<<"old", Len(old_files)>>>> ELSE <<>>)

\* find_large_files(directory, min_size_mb, max_results): ret is the record
\* returned, loc the local variables at the end of the walk.
find_large_files(f, directory, min_size_mb, max_results) ==
    LET st0 == [large_files |-> <<>>, total_large_size |-> 0,
                skipped |-> <<>>, visited |-> <<>>, stop |-> FALSE]
    IN  IF IsRestricted(directory)
        THEN [ret |-> [error |-> <<"Cannot scan system directory", directory>>],
              loc |-> st0]
        ELSE
          LET st     == LargeWalk(f, directory, st0, min_size_mb * MB, max_results)
              sorted == SortDesc(st.large_files)
              top    == SlicePrefix(sorted, max_results)
          IN  [ret |-> [directory       |-> directory,
                        min_size_mb     |-> min_size_mb,
                        files_found     |-> Len(top),
                        total_size_gb   |-> TotalSizeGb(st.total_large_size),
                        files           |-> top,
                        recommendations |->
                            LargeRecommendations(top, st.total_large_size),
                        scan_timestamp  |-> Now],
               loc |-> st]


----------------------------------------------------------------------------
(* The file systems and arguments the tools are run on *)

NFiles == 3
MaxResultsBound == 2

N_data    == <<"d", "a", "t", "a">>
N_sub     == <<"s", "u", "b">>
N_missing == <<"n", "o", "n", "e", "x", "i", "s", "t", "e", "n", "t">>
N_windows == <<"W", "i", "n", "d", "o", "w", "s">>

DigitChars == <<"0", "1", "2", "3", "4", "5", "6", "7", "8", "9">>

\* The name of the i-th file of a generated tree.
LargeNames == <<<<"a", ".", "m", "p", "4">>, <<"b", ".", "L", "O", "G">>, <<"c", ".", "b", "i", "n">>>>
LargeFileName(i) ==
    IF i <= Len(LargeNames) THEN LargeNames[i]
    ELSE <<"f", DigitChars[(i % 10) + 1], ".", "g", "z">>

Root == [comps |-> <<N_data>>, trail |-> FALSE]
RootTrail == [comps |-> <<N_data>>, trail |-> TRUE]
Missing == [comps |-> <<N_missing>>, trail |-> FALSE]
WinDir == [comps |-> <<N_windows>>, trail |-> FALSE]

\* Two sizes per file, so that equal sizes occur; only the first file may be
\* larger than 1GB so that the total stays below 2^31.
LargeSizeChoices(i) ==
    {3 * MB + 1} \cup (IF i = 1 THEN {1100 * MB} ELSE {6 * MB})

Reverse(s) == [i \in 1..Len(s) |-> s[Len(s) + 1 - i]]

\* /data holds files 1..k, /data/sub the files k+1..NFiles; rev lists every
\* directory in the opposite order; file failIdx fails its size or its
\* modification-time lookup.
LargeFs(sizes, k, rev, failIdx, failKind) ==
    LET ord(s)   == IF rev THEN Reverse(s) ELSE s
        inRoot   == [i \in 1..k |-> LargeFileName(i)]
        inSub    == [i \in 1..(NFiles - k) |-> LargeFileName(k + i)]
        compsOf(i) == IF i <= k THEN <<N_data, LargeFileName(i)>>
                      ELSE <<N_data, N_sub, LargeFileName(i)>>
        idxOf(c) == CHOOSE i \in 1..NFiles : compsOf(i) = c
    IN  [dirs |-> [c \in {<<N_data>>, <<N_data, N_sub>>} |->
                     IF c = <<N_data>>
                     THEN [dirs |-> <<N_sub>>, files |-> ord(inRoot)]
                     ELSE [dirs |-> <<>>, files |-> ord(inSub)]],
         meta |-> [c \in {compsOf(i) : i \in 1..NFiles} |->
                     [size       |-> sizes[idxOf(c)],
                      mtime      |-> IF idxOf(c) = 1 THEN Now - 400 * 86400
                                     ELSE Now - 10 * 86400 - idxOf(c) * 4321,
                      sizeFails  |-> idxOf(c) = failIdx /\ failKind = "size",
                      mtimeFails |-> idxOf(c) = failIdx]]]

LargeSizeVectors ==
    {s \in [1..NFiles -> {3 * MB + 1, 6 * MB, 1100 * MB}] :
        \A i \in 1..NFiles : s[i] \in LargeSizeChoices(i)}

LargeFsSet ==
    {LargeFs(sizes, k, rev, failIdx, failKind) :
        sizes \in LargeSizeVectors, k \in 0..NFiles, rev \in BOOLEAN,
        failIdx \in 0..NFiles, failKind \in {"size", "mtime"}}

\* The trees every lookup succeeds on, in listing order.
LargeFsPlain ==
    {LargeFs(sizes, k, FALSE, 0, "size") :
        sizes \in LargeSizeVectors, k \in 0..NFiles}

\* min_size_mb: everything, between the two small sizes, and exactly the
\* second size (a file of 6MB is not larger than 6MB).
MinSizeChoices == {0, 4, 6}

NoResult == [none |-> TRUE]
NoLocals == [none |-> TRUE]

IdleHealth ==
    /\ pc = "idle"
    /\ system_stats = NoResult
    /\ disk_analysis = <<>>
    /\ health_score = "unset"
    /\ issues = <<>>
    /\ recommendations = <<>>
    /\ status = "unset"

----------------------------------------------------------------------------
(* Specification of find_large_files *)

InitLarge ==
    /\ \/ os_name = "posix" /\ fs \in LargeFsSet
       \/ os_name = "nt" /\ fs \in LargeFsPlain
    /\ disks = <<>>
    /\ provider = NoResult
    /\ result = NoResult
    /\ locals = NoLocals
    /\ IdleHealth

\* One call of the tool find_large_files (a behaviour holds one call: no
\* state is carried from one call to the next).
FindLargeFilesCall(directory, min_size_mb, max_results) ==
    LET r == find_large_files(fs, directory, min_size_mb, max_results)
    IN  /\ result = NoResult
        /\ result' = r.ret
        /\ locals' = [tool |-> "find_large_files", directory |-> directory,
                      min_size_mb |-> min_size_mb, max_results |-> max_results]
                     @@ r.loc
        /\ UNCHANGED <<os_name, fs, disks, provider, healthVars>>

NextLarge ==
    \E directory \in {Root, RootTrail, Missing, WinDir},
       min_size_mb \in MinSizeChoices,
       max_results \in 0..MaxResultsBound :
        FindLargeFilesCall(directory, min_size_mb, max_results)

SpecLarge == InitLarge /\ [][NextLarge]_vars


Called(tool) == "tool" \in DOMAIN locals /\ locals.tool = tool

\* C1: find_large_files called with a directory that does not exist returns
\* an error record that has no files key, never a normal result record.
C1_MissingDirectoryIsError ==
    (Called("find_large_files") /\ ~Listable(fs, locals.directory))
        => (HasError(result) /\ "files" \notin DOMAIN result)

\* C5: the files list returned by find_large_files has at most max_results
\* entries and is non-increasing in size_mb from first to last.
C5_CappedAndSorted ==
    (Called("find_large_files") /\ ~HasError(result))
        => /\ Len(result.files) <= locals.max_results
           /\ result.files_found = Len(result.files)
           /\ \A i \in 1..Len(result.files) : \A j \in i..Len(result.files) :
                  result.files[i].size_mb >= result.files[j].size_mb

\* C5 witness: more files were collected than max_results, in an order that
\* was not descending, and the returned list holds max_results >= 2 files
\* of different sizes.
C5_Witness ==
    /\ Called("find_large_files") /\ ~HasError(result)
    /\ locals.max_results >= 2
    /\ Len(locals.large_files) > locals.max_results
    /\ Len(result.files) = locals.max_results
    /\ locals.large_files[1].size_mb < locals.large_files[2].size_mb
    /\ result.files[1].size_mb > result.files[Len(result.files)].size_mb


----------------------------------------------------------------------------
(* cleanup_recommendations *)

temp_dirs ==
    <<<<"t", "m", "p">>,
      <<"t", "e", "m", "p">>,
      <<"_", "_", "p", "y", "c", "a", "c", "h", "e", "_", "_">>,
      <<".", "c", "a", "c", "h", "e">>,
      <<"n", "o", "d", "e", "_", "m", "o", "d", "u", "l", "e", "s">>,
      <<"T", "e", "m", "p">>>>

log_extensions ==
    <<<<".", "l", "o", "g">>, <<".", "t", "m", "p">>, <<".", "b", "a", "k">>, <<".", "o", "l", "d">>>>

\* recommendations[:20]
TopN == 20

\* potential_savings_mb += size_mb, for a temp directory (thousandths of MB).
TempSavings(size_mb) == size_mb * 10

\* The 80% compression assumption left out.
LogSavingsUnweighted(size_mb) == size_mb * 10

\* potential_savings_mb += size_mb * 0.8, for a log file (thousandths of MB).
LogSavings(size_mb) == size_mb * 8

\* dir_name.lower() in [t.lower() for t in temp_dirs]
IsTempName(dir_name) ==
    \E i \in 1..Len(temp_dirs) : Lower(dir_name) = Lower(temp_dirs[i])

\* any(file_lower.endswith(ext) for ext in log_extensions)
IsLogName(file) ==
    \E i \in 1..Len(log_extensions) : EndsWith(Lower(file), log_extensions[i])

\* depth = root[len(path):].count(os.sep)
Depth(path, root) ==
    LET r == PathStr(root)
    IN  Count(SubSeq(r, Len(PathStr(path)) + 1, Len(r)), Sep)

\* The removal left out: dirs stays as listed.
RemoveNothing(s, x) == s

\* dirs.remove(dir_name): the first occurrence goes.
RECURSIVE RemoveFirst(_, _)
RemoveFirst(s, x) ==
    IF s = <<>> THEN <<>>
    ELSE IF Head(s) = x THEN Tail(s)
    ELSE <<Head(s)>> \o RemoveFirst(Tail(s), x)

\* The sub-walk "for dp, dn, fn in os.walk(dir_path)" that measures a temp
\* directory: acc is [size, file_count, skipped].
RECURSIVE MeasureFiles(_, _, _, _)
MeasureFiles(f, dp, fn, acc) ==
    IF fn = <<>> THEN acc
    ELSE LET p == PathJoin(dp, Head(fn))
         IN  IF GetsizeFails(f, p)
             THEN MeasureFiles(f, dp, Tail(fn),
                               [acc EXCEPT !.skipped = Append(@, p)])
             ELSE MeasureFiles(f, dp, Tail(fn),
                               [acc EXCEPT !.size = @ + f.meta[p.comps].size,
                                           !.file_count = @ + 1])

RECURSIVE MeasureWalk(_, _, _)
RECURSIVE MeasureWalkDirs(_, _, _, _)
MeasureWalk(f, dp, acc) ==
    IF ~Listable(f, dp) THEN acc
    ELSE MeasureWalkDirs(f, dp, f.dirs[dp.comps].dirs,
                         MeasureFiles(f, dp, f.dirs[dp.comps].files, acc))

MeasureWalkDirs(f, dp, dn, acc) ==
    IF dn = <<>> THEN acc
    ELSE MeasureWalkDirs(f, dp, Tail(dn),
                         MeasureWalk(f, PathJoin(dp, Head(dn)), acc))

\* "for dir_name in dirs[:]": todo is the copy iterated, st.dirs the list
\* os.walk goes on with.  A temp directory is measured, reported when larger
\* than 1MB, and removed from dirs.
RECURSIVE ScanTempDirs(_, _, _, _)
ScanTempDirs(f, root, todo, st) ==
    IF todo = <<>> THEN st
    ELSE
      LET dir_name == Head(todo)
          dir_path == PathJoin(root, dir_name)
          m        == MeasureWalk(f, dir_path,
                                  [size |-> 0, file_count |-> 0, skipped |-> <<>>])
          size_mb  == SizeMb(m.size)
          rec      == [type       |-> "temp_directory",
                       path       |-> dir_path,
                       size_mb    |-> size_mb,
                       file_count |-> m.file_count,
                       action     |-> "safe_to_delete",
                       risk_level |-> "low"]
      IN  IF ~IsTempName(dir_name) THEN ScanTempDirs(f, root, Tail(todo), st)
          ELSE ScanTempDirs(f, root, Tail(todo),
                 [st EXCEPT
                    !.recommendations =
                        IF m.size > 1024 * 1024 THEN Append(@, rec) ELSE @,
                    !.potential_savings_mb =
                        IF m.size > 1024 * 1024 THEN @ + TempSavings(size_mb) ELSE @,
                    !.skipped = @ \o m.skipped,
                    !.dirs = RemoveFirst(@, dir_name)])

\* "for file in files" of cleanup_recommendations; files is the whole
\* listing, which the duplicate check reads.
RECURSIVE ScanCleanupFiles(_, _, _, _, _, _)
ScanCleanupFiles(f, root, todo, files, deep_analysis, st) ==
    IF todo = <<>> THEN st
    ELSE
      LET file      == Head(todo)
          file_path == PathJoin(root, file)
      IN  IF GetsizeFails(f, file_path) \/ GetmtimeFails(f, file_path)
          THEN ScanCleanupFiles(f, root, Tail(todo), files, deep_analysis,
                                [st EXCEPT !.skipped = Append(@, file_path)])
          ELSE
            LET size      == f.meta[file_path.comps].size
                age_days  == AgeDays(f.meta[file_path.comps].mtime)
                size_mb   == SizeMb(size)
                isLog     == IsLogName(file) /\ size > 10 * 1024 * 1024
                base_name == SplitExtBase(file)
                isDup     == /\ deep_analysis
                             /\ size > 1024 * 1024
                             /\ \E i \in 1..Len(files) :
                                    files[i] # file /\ Contains(files[i], base_name)
                logRec    == [type       |-> "log_file",
                              path       |-> file_path,
                              size_mb    |-> size_mb,
                              age_days   |-> age_days,
                              action     |-> "consider_truncating_or_compressing",
                              risk_level |-> "medium"]
                dupRec    == [type       |-> "potential_duplicate",
                              path       |-> file_path,
                              size_mb    |-> size_mb,
                              action     |-> "manual_review_needed",
                              risk_level |-> "high"]
            IN  ScanCleanupFiles(f, root, Tail(todo), files, deep_analysis,
                  [st EXCEPT
                     !.recommendations =
                         @ \o (IF isLog THEN <<logRec>> ELSE <<>>)
                           \o (IF isDup THEN <<dupRec>> ELSE <<>>),
                     !.potential_savings_mb =
                         IF isLog THEN @ + LogSavings(size_mb) ELSE @])

\* "for root, dirs, files in os.walk(path)": beyond depth 3 the body is
\* skipped by continue, dirs stays as listed and os.walk goes on into it.
RECURSIVE CleanupWalk(_, _, _, _, _)
RECURSIVE CleanupWalkDirs(_, _, _, _, _, _)
CleanupWalk(f, path, root, deep_analysis, st) ==
    IF ~Listable(f, root) THEN st
    ELSE
      LET l   == f.dirs[root.comps]
          st0 == [st EXCEPT !.visited = Append(@, root), !.dirs = l.dirs]
      IN  IF ~deep_analysis /\ Depth(path, root) > 3
          THEN CleanupWalkDirs(f, path, root, l.dirs, deep_analysis, st0)
          ELSE
            LET st1 == ScanTempDirs(f, root, l.dirs, st0)
                st2 == ScanCleanupFiles(f, root, l.files, l.files,
                                        deep_analysis, st1)
            IN  CleanupWalkDirs(f, path, root, st1.dirs, deep_analysis, st2)

CleanupWalkDirs(f, path, root, dirs, deep_analysis, st) ==
    IF dirs = <<>> THEN st
    ELSE CleanupWalkDirs(f, path, root, Tail(dirs), deep_analysis,
                         CleanupWalk(f, path, PathJoin(root, Head(dirs)),
                                     deep_analysis, st))

\* The insights of cleanup_recommendations, from the whole sorted list.
CleanupInsights(sorted, potential_savings_mb) ==
    LET temp_recs == SelectSeq(sorted, LAMBDA r : r.type = "temp_directory")
        log_recs  == SelectSeq(sorted, LAMBDA r : r.type = "log_file")
    IN  (IF potential_savings_mb > 1000 * 1000
         THEN <<<<"cleanup_potential_gb",
                  RoundHalfEven(potential_savings_mb, 102400)>>>>
         ELSE <<>>)
        \o (IF temp_recs # <<>> THEN <<<<"temp_directories", Len(temp_recs)>>>>
            ELSE <<>>)
        \o (IF log_recs # <<>> THEN <<<<"log_files", Len(log_recs)>>>> ELSE <<>>)

\* cleanup_recommendations(path, deep_analysis): ret is the record returned,
\* loc the local variables at the end of the walk (recommendations sorted,
\* not yet truncated; potential_savings_mb in thousandths of a MB).
cleanup_recommendations(f, path, deep_analysis) ==
    LET st == CleanupWalk(f, path, path, deep_analysis,
                          [recommendations |-> <<>>, potential_savings_mb |-> 0,
                           skipped |-> <<>>, visited |-> <<>>, dirs |-> <<>>])
        sorted == SortDesc(st.recommendations)
    IN  [ret |-> [path                  |-> path,
                  analysis_type         |-> IF deep_analysis THEN "deep"
                                            ELSE "standard",
                  recommendations_count |-> Len(sorted),
                  recommendations       |-> SlicePrefix(sorted, TopN),
                  potential_savings_mb  |->
                      RoundHalfEven(st.potential_savings_mb, 10),
                  potential_savings_gb  |->
                      RoundHalfEven(st.potential_savings_mb, 10240),
                  insights              |->
                      CleanupInsights(sorted, st.potential_savings_mb),
                  scan_timestamp        |-> Now],
         loc |-> [recommendations      |-> sorted,
                  unsorted             |-> st.recommendations,
                  potential_savings_mb |-> st.potential_savings_mb,
                  skipped              |-> st.skipped,
                  visited              |-> st.visited]]


----------------------------------------------------------------------------
(* The trees cleanup_recommendations is run on *)

MaxChain == 5
MaxBulk == 22

N_d            == <<"d">>
N_a_bin        == <<"a", ".", "b", "i", "n">>
N_x_log        == <<"x", ".", "L", "O", "G">>
N_y_log        == <<"y", ".", "l", "o", "g">>
N_z_bin        == <<"z", ".", "b", "i", "n">>
N_report       == <<"r", "e", "p", "o", "r", "t", ".", "b", "i", "n">>
N_report_final == <<"r", "e", "p", "o", "r", "t", "_", "f", "i", "n", "a", "l", ".", "b", "i", "n">>
N_tmp          == <<"t", "m", "p">>

\* The name of the temp directory hung below the chain directory of level i.
TempNames ==
    <<<<"t", "m", "p">>,
      <<"T", "e", "m", "p">>,
      <<"n", "o", "d", "e", "_", "m", "o", "d", "u", "l", "e", "s">>,
      <<".", "c", "a", "c", "h", "e">>,
      <<"_", "_", "p", "y", "c", "a", "c", "h", "e", "_", "_">>,
      <<"T", "E", "M", "P">>>>
TempNameAt(i) == TempNames[(i % Len(TempNames)) + 1]

BulkName(i) ==
    <<"l", DigitChars[((i \div 10) % 10) + 1], DigitChars[(i % 10) + 1],
      ".", "l", "o", "g">>

\* scandir order of the names of one directory (reversed when rev).
NameOrder ==
    <<N_d, N_sub, N_x_log, N_report, N_report_final, N_a_bin, N_y_log, N_z_bin>>
        \o TempNames \o [i \in 1..MaxBulk |-> BulkName(i)]

\* /data/d/d/.../d, i levels below /data.
ChainDir(i) == <<N_data>> \o [j \in 1..i |-> N_d]

\* The file system with directories D and files E (records [comps, size]);
\* every file named failName fails its lookups (only the modification-time
\* lookup when failKind is "mtime").
FsFrom(D, E, rev, failName, failKind) ==
    LET ord(s) == IF rev THEN Reverse(s) ELSE s
        F == {e.comps : e \in E}
        sizeOf(c) == (CHOOSE e \in E : e.comps = c).size
    IN  [dirs |-> [c \in D |->
                     [dirs  |-> ord(SelectSeq(NameOrder,
                                      LAMBDA n : Append(c, n) \in D)),
                      files |-> ord(SelectSeq(NameOrder,
                                      LAMBDA n : Append(c, n) \in F))]],
         meta |-> [c \in F |->
                     [size       |-> sizeOf(c),
                      mtime      |-> Now - 10 * 86400 - Len(c) * 4321,
                      sizeFails  |-> c[Len(c)] = failName /\ failKind = "size",
                      mtimeFails |-> c[Len(c)] = failName]]]

\* A chain of MaxChain directories below /data; below level tempAt a temp
\* directory (small: 1MB in all; flat: one 50MB file; nested: also a log
\* file and a further temp directory inside), at level logAt a log file, at
\* level dupAt two files with similar names.  A level of -1 leaves it out.
ChainFs(tempAt, tempKind, logAt, logSize, dupAt, rev, failName, failKind) ==
    LET T == Append(ChainDir(tempAt), TempNameAt(tempAt))
        tempDirs ==
            IF tempAt < 0 THEN {}
            ELSE IF tempKind = "nested"
                 THEN {T, Append(T, N_sub), T \o <<N_sub, N_tmp>>}
                 ELSE {T}
        tempFiles ==
            IF tempAt < 0 THEN {}
            ELSE IF tempKind = "small"
                 THEN {[comps |-> Append(T, N_a_bin), size |-> MB]}
            ELSE IF tempKind = "flat"
                 THEN {[comps |-> Append(T, N_a_bin), size |-> 50 * MB]}
            ELSE {[comps |-> Append(T, N_a_bin), size |-> 50 * MB],
                  [comps |-> T \o <<N_sub, N_y_log>>, size |-> 20 * MB + 7000],
                  [comps |-> T \o <<N_sub, N_tmp, N_z_bin>>, size |-> 2 * MB]}
        logFiles ==
            IF logAt < 0 THEN {}
            ELSE {[comps |-> Append(ChainDir(logAt), N_x_log), size |-> logSize]}
        dupFiles ==
            IF dupAt < 0 THEN {}
            ELSE {[comps |-> Append(ChainDir(dupAt), N_report),
                   size |-> 2 * MB],
                  [comps |-> Append(ChainDir(dupAt), N_report_final),
                   size |-> 3 * MB]}
    IN  FsFrom({ChainDir(i) : i \in 0..MaxChain} \cup tempDirs,
               tempFiles \cup logFiles \cup dupFiles, rev, failName, failKind)

\* The temp directory hangs below levels 0, 2, 3, 4 and MaxChain (around the
\* depth bound of 3), the log file lies at levels 0, 3, 4 and MaxChain; the
\* listing order alternates with the levels.  A failing name that no file
\* bears (N_d) is the tree without any failure.
ChainFsSet ==
    {ChainFs(tempAt, tempKind, logAt, logSize, dupAt,
             (tempAt + logAt) % 2 = 1, fail[1], fail[2]) :
        tempAt \in {-1, 0, 2, 3, 4, MaxChain},
        tempKind \in {"small", "flat", "nested"},
        logAt \in {-1, 0, 3, 4, MaxChain}, logSize \in {10 * MB, 15 * MB},
        dupAt \in {-1, 0, MaxChain},
        fail \in {<<N_d, "size">>, <<N_a_bin, "size">>, <<N_y_log, "size">>,
                  <<N_x_log, "size">>, <<N_x_log, "mtime">>,
                  <<N_report_final, "size">>}}

\* /data with n log files of 11..15MB, the two files with similar names,
\* and possibly a flat temp directory smaller than every log file.
BulkFs(n, stride, withTemp, rev) ==
    LET T == <<N_data, N_tmp>>
    IN  FsFrom({<<N_data>>} \cup (IF withTemp THEN {T} ELSE {}),
               {[comps |-> <<N_data, BulkName(i)>>,
                 size |-> (11 + ((i * stride) % 5)) * MB + i * 11000] :
                    i \in 1..n}
               \cup {[comps |-> <<N_data, N_report>>, size |-> 2 * MB],
                     [comps |-> <<N_data, N_report_final>>, size |-> 12 * MB]}
               \cup (IF withTemp
                     THEN {[comps |-> Append(T, N_a_bin), size |-> 10 * MB + 500000]}
                     ELSE {}),
               rev, N_d, "size")

BulkFsSet ==
    {BulkFs(n, stride, withTemp, rev) :
        n \in {0} \cup ((MaxBulk - 4)..MaxBulk), stride \in {0, 1, 2},
        withTemp \in BOOLEAN, rev \in BOOLEAN}

----------------------------------------------------------------------------
(* Specification of cleanup_recommendations *)

InitCleanup ==
    /\ os_name = "posix"
    /\ fs \in ChainFsSet \cup BulkFsSet
    /\ disks = <<>>
    /\ provider = NoResult
    /\ result = NoResult
    /\ locals = NoLocals
    /\ IdleHealth

\* One call of the tool cleanup_recommendations.
CleanupCall(path, deep_analysis) ==
    LET r == cleanup_recommendations(fs, path, deep_analysis)
    IN  /\ result = NoResult
        /\ result' = r.ret
        /\ locals' = [tool |-> "cleanup_recommendations", path |-> path,
                      deep_analysis |-> deep_analysis] @@ r.loc
        /\ UNCHANGED <<os_name, fs, disks, provider, healthVars>>

NextCleanup ==
    \E path \in {Root, RootTrail, Missing}, deep_analysis \in BOOLEAN :
        CleanupCall(path, deep_analysis)

SpecCleanup == InitCleanup /\ [][NextCleanup]_vars


----------------------------------------------------------------------------
(* Properties of cleanup_recommendations *)

\* p lies below directory d / is d or lies below it.
IsUnder(p, d) ==
    /\ Len(p.comps) > Len(d.comps)
    /\ SubSeq(p.comps, 1, Len(d.comps)) = d.comps
IsAtOrUnder(p, d) == p.comps = d.comps \/ IsUnder(p, d)

\* The directory an entry lies in.
Parent(p) == [comps |-> SubSeq(p.comps, 1, Len(p.comps) - 1), trail |-> FALSE]

Range(s) == {s[i] : i \in 1..Len(s)}

\* The sum of the size_mb of a list of candidates.
RECURSIVE SumSizeMb(_)
SumSizeMb(s) ==
    IF s = <<>> THEN 0 ELSE Head(s).size_mb + SumSizeMb(Tail(s))

OfType(s, t) == SelectSeq(s, LAMBDA r : r.type = t)

\* C2: once a directory is reported as a temp_directory candidate, the main
\* walk never has it or a descendant as current directory, and no candidate
\* of any type has a path underneath it; for deep_analysis false and true.
C2_TempDirectoryPruned ==
    Called("cleanup_recommendations") =>
        \A t \in Range(OfType(locals.recommendations, "temp_directory")) :
            /\ \A i \in 1..Len(locals.visited) :
                   ~IsAtOrUnder(locals.visited[i], t.path)
            /\ \A r \in Range(locals.recommendations) : ~IsUnder(r.path, t.path)

\* C2 witness: a deep analysis reported a temp directory that holds a
\* subdirectory with a log file larger than 10MB and a further temp
\* directory, after which the walk visited other directories.
C2_Witness ==
    /\ Called("cleanup_recommendations") /\ locals.deep_analysis
    /\ \E t \in Range(OfType(locals.recommendations, "temp_directory")) :
           /\ fs.dirs[t.path.comps].dirs = <<N_sub>>
           /\ Append(t.path.comps, N_sub) \o <<N_tmp>> \in DOMAIN fs.dirs
           /\ fs.meta[Append(t.path.comps, N_sub) \o <<N_y_log>>].size
                  > 10 * MB
           /\ t.file_count = 3
           /\ Len(locals.visited) > Len(t.path.comps)

\* The depth of the directory a candidate was found in or, for a temp
\* directory, of the directory itself.
CandidateDepth(r) ==
    IF r.type = "temp_directory" THEN Depth(locals.path, r.path)
    ELSE Depth(locals.path, Parent(r.path))

\* C3: with deep_analysis false no directory deeper than 3 is walked and no
\* candidate is reported for an entry beyond depth 3.
C3_DepthBound ==
    (Called("cleanup_recommendations") /\ ~locals.deep_analysis) =>
        /\ \A i \in 1..Len(locals.visited) :
               Depth(locals.path, locals.visited[i]) <= 3
        /\ \A r \in Range(locals.recommendations) : CandidateDepth(r) <= 3

\* The savings of a list of candidates in thousandths of a MB: the sizes of
\* the temp directories plus 0.8 times the sizes of the log files.
SavingsOf(cands) ==
    10 * SumSizeMb(OfType(cands, "temp_directory"))
        + 8 * SumSizeMb(OfType(cands, "log_file"))

\* The tree of the scenario: /data/tmp/a.bin (50MB) and /data/x.log (15MB),
\* every lookup succeeding.
IsScenarioTree ==
    /\ DOMAIN fs.meta = {<<N_data, N_tmp, N_a_bin>>, <<N_data, N_x_log>>}
    /\ fs.meta[<<N_data, N_tmp, N_a_bin>>].size = 50 * MB
    /\ fs.meta[<<N_data, N_x_log>>].size = 15 * MB
    /\ \A c \in DOMAIN fs.meta : ~fs.meta[c].mtimeFails

\* C4: potential_savings_mb is the sum of the sizes of all temp_directory
\* candidates plus 0.8 times the sum of the sizes of all log_file
\* candidates found before truncation (rounded to two decimals, as every
\* size is); duplicates add nothing.  /data/tmp/a.bin (50MB) with
\* /data/x.log (15MB) gives one temp_directory (50), one log_file (15) and
\* savings 62.
C4_PotentialSavings ==
    Called("cleanup_recommendations") =>
        /\ result.potential_savings_mb
               = RoundHalfEven(SavingsOf(locals.unsorted), 10)
        /\ (IsScenarioTree /\ locals.path.comps = <<N_data>>)
               => /\ Len(result.recommendations) = 2
                  /\ result.recommendations[1].type = "temp_directory"
                  /\ result.recommendations[1].size_mb = 5000
                  /\ result.recommendations[2].type = "log_file"
                  /\ result.recommendations[2].size_mb = 1500
                  /\ result.potential_savings_mb = 6200

\* C4 witness: cleanup_recommendations("/data", false) has returned on the
\* tree of the scenario, with savings of 62MB.
C4_Witness ==
    /\ Called("cleanup_recommendations") /\ ~locals.deep_analysis
    /\ IsScenarioTree /\ locals.path = Root
    /\ result.potential_savings_mb = 6200

\* C10: the returned recommendations are at most 20, non-increasing in
\* size_mb and the largest candidates of the scan, while
\* recommendations_count, potential_savings_mb and the counts of the insights
\* are taken over all candidates found.
C10_TopTwenty ==
    Called("cleanup_recommendations") =>
        LET all      == locals.unsorted
            returned == result.recommendations
            omitted  == Range(all) \ Range(returned)
            insight(kind) ==
                {result.insights[i] : i \in 1..Len(result.insights)}
                    \cap {<<kind, n>> : n \in 0..Len(all)}
            countOf(t, kind) ==
                IF OfType(all, t) = <<>> THEN insight(kind) = {}
                ELSE insight(kind) = {<<kind, Len(OfType(all, t))>>}
        IN  /\ Len(returned) = Min(Len(all), 20)
            /\ Range(returned) \subseteq Range(all)
            /\ Cardinality(Range(returned)) = Len(returned)
            /\ \A i \in 1..Len(returned) : \A j \in i..Len(returned) :
                   returned[i].size_mb >= returned[j].size_mb
            /\ \A o \in omitted : \A r \in Range(returned) :
                   o.size_mb <= r.size_mb
            /\ result.recommendations_count = Len(all)
            /\ result.potential_savings_mb
                   = RoundHalfEven(SavingsOf(all), 10)
            /\ countOf("temp_directory", "temp_directories")
            /\ countOf("log_file", "log_files")

\* C10 witness: more than 20 candidates were found, in an order that was
\* not descending; 20 are returned, a temp directory and a log file are
\* among those left out, and the sizes returned are not all equal.
C10_Witness ==
    /\ Called("cleanup_recommendations")
    /\ result.recommendations_count > 20
    /\ Len(result.recommendations) = 20
    /\ result.recommendations[1].size_mb > result.recommendations[20].size_mb
    /\ locals.unsorted[1].size_mb < locals.unsorted[2].size_mb
    /\ \E t \in Range(locals.unsorted) \ Range(result.recommendations) :
           t.type = "temp_directory"
    /\ \E l \in Range(locals.unsorted) \ Range(result.recommendations) :
           l.type = "log_file"


----------------------------------------------------------------------------
(* Both walkers on trees with failing lookups *)

InitWalkers ==
    /\ os_name = "posix"
    /\ fs \in LargeFsSet \cup ChainFsSet
    /\ disks = <<>>
    /\ provider = NoResult
    /\ result = NoResult
    /\ locals = NoLocals
    /\ IdleHealth

NextWalkers ==
    \/ \E min_size_mb \in MinSizeChoices, max_results \in 0..MaxResultsBound :
           FindLargeFilesCall(Root, min_size_mb, max_results)
    \/ \E deep_analysis \in BOOLEAN : CleanupCall(Root, deep_analysis)

SpecWalkers == InitWalkers /\ [][NextWalkers]_vars

\* The files of which a lookup fails.
Failing(f) == {c \in DOMAIN f.meta : f.meta[c].sizeFails \/ f.meta[c].mtimeFails}

\* The file system f with the files S absent.
WithoutFiles(f, S) ==
    [dirs |-> [c \in DOMAIN f.dirs |->
                 [dirs  |-> f.dirs[c].dirs,
                  files |-> SelectSeq(f.dirs[c].files,
                                      LAMBDA n : Append(c, n) \notin S)]],
     meta |-> [c \in (DOMAIN f.meta) \ S |-> f.meta[c]]]

NotDuplicates(s) == SelectSeq(s, LAMBDA r : r.type # "potential_duplicate")

\* find_large_files returns what it returns on the tree without the failing
\* files.
LargeAsIfAbsent ==
    Called("find_large_files") =>
        /\ ~HasError(result)
        /\ result = find_large_files(WithoutFiles(fs, Failing(fs)),
                                     locals.directory, locals.min_size_mb,
                                     locals.max_results).ret

\* C9 as stated: a stat failure on a file skips only that entry; the call
\* returns a normal result in which every other entry is reported as if the
\* failing entry were absent from the tree.
C9_AsIfAbsent ==
    /\ LargeAsIfAbsent
    /\ Called("cleanup_recommendations") =>
           /\ ~HasError(result)
           /\ result = cleanup_recommendations(WithoutFiles(fs, Failing(fs)),
                                               locals.path,
                                               locals.deep_analysis).ret

\* C9 amended: as stated for find_large_files, for cleanup_recommendations
\* without deep analysis and for the temp_directory and log_file candidates
\* and the savings of a deep analysis; in a deep analysis the name of a
\* failing file still counts in the duplicate check, so the
\* potential_duplicate candidates are those of the tree without the failing
\* files and, possibly, further files of a directory that holds a failing
\* file.
C9_AsIfAbsentButDuplicates ==
    /\ LargeAsIfAbsent
    /\ Called("cleanup_recommendations") =>
           LET r0 == cleanup_recommendations(WithoutFiles(fs, Failing(fs)),
                                             locals.path, locals.deep_analysis)
               extra == Range(locals.recommendations)
                            \ Range(r0.loc.recommendations)
           IN  /\ ~HasError(result)
               /\ ~locals.deep_analysis => result = r0.ret
               /\ NotDuplicates(locals.recommendations)
                      = NotDuplicates(r0.loc.recommendations)
               /\ result.potential_savings_mb = r0.ret.potential_savings_mb
               /\ Range(r0.loc.recommendations)
                      \subseteq Range(locals.recommendations)
               /\ \A x \in extra :
                      /\ x.type = "potential_duplicate"
                      /\ \E c \in Failing(fs) :
                             Parent([comps |-> c, trail |-> FALSE]) = Parent(x.path)

\* C9 witness: a deep analysis skipped a file whose lookup failed, reported
\* a log file of the same tree, and reported as potential duplicate a file
\* that lies beside the failing one.
C9_Witness ==
    /\ Called("cleanup_recommendations") /\ locals.deep_analysis
    /\ locals.skipped # <<>>
    /\ OfType(locals.recommendations, "log_file") # <<>>
    /\ \E x \in Range(OfType(locals.recommendations, "potential_duplicate")) :
           \E i \in 1..Len(locals.skipped) :
               Parent(locals.skipped[i]) = Parent(x.path)

----------------------------------------------------------------------------
(* analyze_disk_usage, get_system_stats *)

\* Disk sizes are counted in MiB (shutil.disk_usage counts bytes, in
\* multiples of the block size); disks maps the components of every
\* existing path to [total, used, free].

\* "/" and the drive "C:\" it resolves to when os.name is 'nt'.
SlashPath == [comps |-> <<>>, trail |-> FALSE]
DrivePath(letter) == [comps |-> <<<<letter, ":">>>>, trail |-> TRUE]

\* round(x / (1024**3), 2) of a size in MiB, in hundredths of a GB.
DiskGb(mib) == RoundHalfEven(mib * 100, 1024)

\* The thresholds taken as inclusive.
HealthStatusInclusive(usage_percent) ==
    IF usage_percent >= 9000 THEN "critical"
    ELSE IF usage_percent >= 8000 THEN "warning"
    ELSE IF usage_percent >= 7000 THEN "concern"
    ELSE "healthy"

\* The health assessment of analyze_disk_usage; usage_percent in hundredths
\* of a percent.
HealthStatusOf(usage_percent) ==
    IF usage_percent > 9000 THEN "critical"
    ELSE IF usage_percent > 8000 THEN "warning"
    ELSE IF usage_percent > 7000 THEN "concern"
    ELSE "healthy"

DiskRecommendations(usage_percent, free_gb) ==
    (IF usage_percent > 8000 THEN <<"Consider cleanup operations">> ELSE <<>>)
    \o (IF usage_percent > 9000
        THEN <<"Immediate attention required - disk nearly full">>
        ELSE <<>>)
    \o (IF free_gb < 100 THEN <<"Critical: Less than 1GB free space">>
        ELSE <<>>)

\* analyze_disk_usage(path) on the disks d: a total of 0 raises
\* ZeroDivisionError, which the handler turns into an error record.
analyze_disk_usage(d, path) ==
    LET p == IF os_name = "nt" /\ path = SlashPath THEN DrivePath("C") ELSE path
    IN  IF p.comps \notin DOMAIN d
        THEN [error |-> <<"Path does not exist", p>>]
        ELSE
          LET usage == d[p.comps]
          IN  IF usage.total = 0 THEN [error |-> <<"division by zero">>]
              ELSE
                LET usage_percent == RoundHalfEven(usage.used * 10000,
                                                   usage.total)
                    free_gb == DiskGb(usage.free)
                IN  [path               |-> p,
                     total_gb           |-> DiskGb(usage.total),
                     used_gb            |-> DiskGb(usage.used),
                     free_gb            |-> free_gb,
                     usage_percent      |-> usage_percent,
                     health_status      |-> HealthStatusOf(usage_percent),
                     recommendations    |->
                         DiskRecommendations(usage_percent, free_gb),
                     analysis_timestamp |-> Now]

\* get_system_stats(): the CPU and memory readings of psutil in hundredths
\* of a percent (load average, disk and network counters are passed through
\* and not modelled); a failing provider gives an error record.
get_system_stats ==
    IF provider.fails THEN [error |-> <<"provider">>]
    ELSE
      LET health_issues ==
              (IF provider.cpu > 9000 THEN <<"High CPU usage">> ELSE <<>>)
              \o (IF provider.mem > 9000 THEN <<"High memory usage">> ELSE <<>>)
      IN  [timestamp     |-> Now,
           cpu           |-> [usage_percent |-> provider.cpu],
           memory        |-> [used_percent |-> provider.mem,
                              free_percent |-> 10000 - provider.mem],
           health_status |-> IF health_issues = <<>> THEN "healthy"
                             ELSE "attention_needed",
           health_issues |-> health_issues]

----------------------------------------------------------------------------
(* system_health_check *)

\* string.ascii_uppercase
ascii_uppercase ==
    <<"A", "B", "C", "D", "E", "F", "G", "H", "I", "J", "K", "L", "M",
      "N", "O", "P", "Q", "R", "S", "T", "U", "V", "W", "X", "Y", "Z">>

N_home == <<"h", "o", "m", "e">>
N_var  == <<"v", "a", "r">>

\* ['/', '/home', '/var', '/tmp']
mount_points ==
    <<SlashPath,
      [comps |-> <<N_home>>, trail |-> FALSE],
      [comps |-> <<N_var>>, trail |-> FALSE],
      [comps |-> <<N_tmp>>, trail |-> FALSE]>>

\* The candidate paths of the platform.
CandidateDisks ==
    IF os_name = "nt"
    THEN [i \in 1..Len(ascii_uppercase) |-> DrivePath(ascii_uppercase[i])]
    ELSE mount_points

\* The loop over the drives or mount points: the analyses of those that
\* exist and give no error, in order.
RECURSIVE AnalyzeAll(_, _)
AnalyzeAll(d, paths) ==
    IF paths = <<>> THEN <<>>
    ELSE LET analysis == analyze_disk_usage(d, Head(paths))
         IN  (IF Head(paths).comps \in DOMAIN d /\ ~HasError(analysis)
              THEN <<analysis>> ELSE <<>>)
             \o AnalyzeAll(d, Tail(paths))

\* The CPU penalty with the sign slipped.
CpuPenaltySignSlip(cpu_usage) ==
    IF cpu_usage > 9000 THEN 0 - 20 ELSE IF cpu_usage > 7000 THEN 0 - 10 ELSE 0

CpuPenalty(cpu_usage) ==
    IF cpu_usage > 9000 THEN 20 ELSE IF cpu_usage > 7000 THEN 10 ELSE 0

MemoryPenalty(memory_usage) ==
    IF memory_usage > 9000 THEN 25 ELSE IF memory_usage > 8000 THEN 15 ELSE 0

critical_disks(analysis) ==
    SelectSeq(analysis, LAMBDA a : a.usage_percent > 9000)
warning_disks(analysis) ==
    SelectSeq(analysis, LAMBDA a : a.usage_percent > 8000)

\* The warning penalty applied besides the critical one (if for elif).
DiskPenaltyBoth(analysis) ==
    (IF critical_disks(analysis) # <<>> THEN 30 ELSE 0)
        + (IF warning_disks(analysis) # <<>> THEN 15 ELSE 0)

DiskPenalty(analysis) ==
    IF critical_disks(analysis) # <<>> THEN 30
    ELSE IF warning_disks(analysis) # <<>> THEN 15
    ELSE 0

StatusOf(score) ==
    IF score >= 90 THEN "excellent"
    ELSE IF score >= 70 THEN "good"
    ELSE IF score >= 50 THEN "fair"
    ELSE IF score >= 30 THEN "poor"
    ELSE "critical"

\* system_stats = get_system_stats()
HealthStats ==
    /\ pc = "idle" /\ result = NoResult
    /\ system_stats' = get_system_stats
    /\ pc' = "disks"
    /\ UNCHANGED <<os_name, fs, disks, provider, result, locals,
                   disk_analysis, health_score, issues, recommendations,
                   status>>

\* The disk analysis of every drive or mount point, then health_score = 100
\* and the empty lists.
HealthDisks ==
    /\ pc = "disks"
    /\ disk_analysis' = AnalyzeAll(disks, CandidateDisks)
    /\ health_score' = 100
    /\ issues' = <<>>
    /\ recommendations' = <<>>
    /\ pc' = "cpu"
    /\ UNCHANGED <<os_name, fs, disks, provider, result, locals,
                   system_stats, status>>

\* CPU health
HealthCpu ==
    /\ pc = "cpu"
    /\ IF ~HasError(system_stats)
       THEN LET cpu_usage == system_stats.cpu.usage_percent
            IN  /\ health_score' = health_score - CpuPenalty(cpu_usage)
                /\ issues' =
                       IF cpu_usage > 9000 THEN Append(issues, "High CPU usage")
                       ELSE IF cpu_usage > 7000
                            THEN Append(issues, "Elevated CPU usage")
                            ELSE issues
                /\ recommendations' =
                       IF cpu_usage > 9000
                       THEN Append(recommendations,
                                   "Investigate high CPU processes")
                       ELSE recommendations
       ELSE UNCHANGED <<health_score, issues, recommendations>>
    /\ pc' = "memory"
    /\ UNCHANGED <<os_name, fs, disks, provider, result, locals,
                   system_stats, disk_analysis, status>>

\* Memory health
HealthMemory ==
    /\ pc = "memory"
    /\ IF ~HasError(system_stats)
       THEN LET memory_usage == system_stats.memory.used_percent
            IN  /\ health_score' = health_score - MemoryPenalty(memory_usage)
                /\ issues' =
                       IF memory_usage > 9000
                       THEN Append(issues, "Critical memory usage")
                       ELSE IF memory_usage > 8000
                            THEN Append(issues, "High memory usage")
                            ELSE issues
                /\ recommendations' =
                       IF memory_usage > 9000
                       THEN Append(recommendations,
                              "Close unnecessary applications or add more RAM")
                       ELSE recommendations
       ELSE UNCHANGED <<health_score, issues, recommendations>>
    /\ pc' = "disk"
    /\ UNCHANGED <<os_name, fs, disks, provider, result, locals,
                   system_stats, disk_analysis, status>>

\* Disk health
HealthDisk ==
    /\ pc = "disk"
    /\ health_score' = health_score - DiskPenalty(disk_analysis)
    /\ issues' =
           IF critical_disks(disk_analysis) # <<>>
           THEN Append(issues, <<"Critical disk space on drives",
                                 Len(critical_disks(disk_analysis))>>)
           ELSE IF warning_disks(disk_analysis) # <<>>
                THEN Append(issues, <<"Low disk space on drives",
                                      Len(warning_disks(disk_analysis))>>)
                ELSE issues
    /\ recommendations' =
           IF critical_disks(disk_analysis) # <<>>
           THEN Append(recommendations,
                       "Immediate cleanup required for critical drives")
           ELSE IF warning_disks(disk_analysis) # <<>>
                THEN Append(recommendations, "Consider cleanup operations")
                ELSE recommendations
    /\ pc' = "status"
    /\ UNCHANGED <<os_name, fs, disks, provider, result, locals,
                   system_stats, disk_analysis, status>>

\* The overall status and the report returned.
HealthReturn ==
    /\ pc = "status"
    /\ status' = StatusOf(health_score)
    /\ result' = [health_score    |-> health_score,
                  status          |-> StatusOf(health_score),
                  issues          |-> issues,
                  recommendations |-> recommendations,
                  system_stats    |-> system_stats,
                  disk_analysis   |-> disk_analysis,
                  check_timestamp |-> Now,
                  summary         |-> <<"System health", StatusOf(health_score),
                                        health_score>>]
    /\ locals' = [tool |-> "system_health_check"]
    /\ pc' = "done"
    /\ UNCHANGED <<os_name, fs, disks, provider, system_stats, disk_analysis,
                   health_score, issues, recommendations>>

\* One call of the tool analyze_disk_usage.
AnalyzeDiskUsageCall(path) ==
    /\ pc = "idle" /\ result = NoResult
    /\ result' = analyze_disk_usage(disks, path)
    /\ locals' = [tool |-> "analyze_disk_usage", path |-> path]
    /\ UNCHANGED <<os_name, fs, disks, provider, healthVars>>

----------------------------------------------------------------------------
(* Specification of analyze_disk_usage and system_health_check *)

Usage(total, used, reserved) ==
    [total |-> total, used |-> used, free |-> total - used - reserved]

\* Usages on and beside the thresholds of 70, 80 and 90 percent, a small
\* disk with less than 1GB free, and a disk of size 0.
UsageChoices ==
    {Usage(10000, 5000, 0), Usage(10000, 7000, 0), Usage(10000, 7001, 500),
     Usage(10000, 8000, 0), Usage(10000, 8001, 0), Usage(10000, 9000, 500),
     Usage(10000, 9001, 0), Usage(3000, 2701, 0), Usage(0, 0, 0)}

HomeChoices == {Usage(10000, 5000, 0), Usage(10000, 8500, 0), Usage(10000, 9500, 0)}

\* The disks of a posix host: "/" always exists, /home, /var and /tmp may.
PosixDisks ==
    {[c \in {<<>>} \cup (IF home = <<>> THEN {} ELSE {<<N_home>>})
                   \cup (IF var THEN {<<N_var>>} ELSE {})
                   \cup (IF tmp THEN {<<N_tmp>>} ELSE {}) |->
         IF c = <<>> THEN root
         ELSE IF c = <<N_home>> THEN home[1]
         ELSE IF c = <<N_var>> THEN Usage(3000, 2701, 0)
         ELSE Usage(10000, 9000, 0)] :
        root \in UsageChoices,
        home \in {<<>>} \cup {<<h>> : h \in HomeChoices},
        var \in BOOLEAN, tmp \in BOOLEAN}

\* The drives of an nt host: none, C: alone, or C: and D:.
NtDisks ==
    {[c \in {} |-> Usage(0, 0, 0)]}
    \cup {[c \in {<<<<"C", ":">>>>} |-> u] : u \in UsageChoices}
    \cup {[c \in {<<<<"C", ":">>>>, <<<<"D", ":">>>>} |->
              IF c = <<<<"C", ":">>>> THEN u ELSE Usage(10000, 8500, 0)] :
             u \in UsageChoices}

ProviderChoices ==
    {[fails |-> TRUE, cpu |-> 0, mem |-> 0]}
    \cup {[fails |-> FALSE, cpu |-> c, mem |-> m] :
             c \in {5000, 7000, 7001, 9000, 9001, 9500},
             m \in {5000, 8000, 8001, 9000, 9001}}

InitHealth ==
    /\ \/ os_name = "posix" /\ disks \in PosixDisks
       \/ os_name = "nt" /\ disks \in NtDisks
    /\ provider \in ProviderChoices
    /\ fs = [dirs |-> <<>>, meta |-> <<>>]
    /\ result = NoResult
    /\ locals = NoLocals
    /\ IdleHealth

NextHealth ==
    \/ \E path \in {SlashPath, mount_points[2], DrivePath("D"), Missing} :
           AnalyzeDiskUsageCall(path)
    \/ HealthStats
    \/ HealthDisks
    \/ HealthCpu
    \/ HealthMemory
    \/ HealthDisk
    \/ HealthReturn

SpecHealth == InitHealth /\ [][NextHealth]_vars

----------------------------------------------------------------------------
(* Properties of analyze_disk_usage and system_health_check *)

\* The tiers of the claim, on a usage percentage in hundredths of a percent.
TierOf(r) ==
    /\ r.health_status = "critical" <=> r.usage_percent > 9000
    /\ r.health_status = "warning"
           <=> (8000 < r.usage_percent /\ r.usage_percent <= 9000)
    /\ r.health_status = "concern"
           <=> (7000 < r.usage_percent /\ r.usage_percent <= 8000)
    /\ r.health_status = "healthy" <=> r.usage_percent <= 7000
    /\ r.usage_percent = 7000 => r.health_status = "healthy"
    /\ r.usage_percent = 8000 => r.health_status = "concern"
    /\ r.usage_percent = 9000 => r.health_status = "warning"

\* C8: for every usage percentage p computed by analyze_disk_usage the
\* status is critical iff p > 90, warning iff 80 < p <= 90, concern iff
\* 70 < p <= 80 and healthy otherwise; exactly 70, 80 and 90 map to the
\* lower tier.
C8_StatusTiers ==
    /\ (Called("analyze_disk_usage") /\ ~HasError(result)) => TierOf(result)
    /\ pc \in {"cpu", "memory", "disk", "status", "done"} =>
           \A i \in 1..Len(disk_analysis) : TierOf(disk_analysis[i])

\* C8 witness: analyze_disk_usage computed a usage of exactly 90 percent
\* and reported warning.
C8_Witness ==
    /\ Called("analyze_disk_usage") /\ ~HasError(result)
    /\ result.usage_percent = 9000
    /\ result.health_status = "warning"

\* The penalties of the claim from the readings: no CPU or memory reading
\* (the provider returned an error) gives no penalty.
ClaimedCpuPenalty ==
    IF provider.fails THEN 0
    ELSE IF provider.cpu > 9000 THEN 20
    ELSE IF provider.cpu > 7000 THEN 10 ELSE 0
ClaimedMemoryPenalty ==
    IF provider.fails THEN 0
    ELSE IF provider.mem > 9000 THEN 25
    ELSE IF provider.mem > 8000 THEN 15 ELSE 0
ClaimedDiskPenalty ==
    IF \E i \in 1..Len(result.disk_analysis) :
           result.disk_analysis[i].usage_percent > 9000 THEN 30
    ELSE IF \E i \in 1..Len(result.disk_analysis) :
                result.disk_analysis[i].usage_percent > 8000 THEN 15
    ELSE 0

\* C6: the score is 100 minus one CPU penalty (20 / 10 / 0), one memory
\* penalty (25 / 15 / 0) and one disk penalty (30 / 15 / 0), and the status
\* is excellent, good, fair, poor, critical for a score >= 90, >= 70,
\* >= 50, >= 30, below 30; CPU 95, memory 50 and no disk data give 80, good.
C6_ScoreAndStatus ==
    Called("system_health_check") =>
        /\ result.health_score
               = 100 - ClaimedCpuPenalty - ClaimedMemoryPenalty
                     - ClaimedDiskPenalty
        /\ result.status = "excellent" <=> result.health_score >= 90
        /\ result.status = "good"
               <=> (70 <= result.health_score /\ result.health_score < 90)
        /\ result.status = "fair"
               <=> (50 <= result.health_score /\ result.health_score < 70)
        /\ result.status = "poor"
               <=> (30 <= result.health_score /\ result.health_score < 50)
        /\ result.status = "critical" <=> result.health_score < 30
        /\ (/\ ~provider.fails /\ provider.cpu = 9500 /\ provider.mem = 5000
            /\ result.disk_analysis = <<>>)
               => (result.health_score = 80 /\ result.status = "good")

\* C6 witness: the report for CPU 95, memory 50 and no assessable disk,
\* with score 80 and status good.
C6_Witness ==
    /\ Called("system_health_check")
    /\ ~provider.fails /\ provider.cpu = 9500 /\ provider.mem = 5000
    /\ result.disk_analysis = <<>>
    /\ result.health_score = 80 /\ result.status = "good"

\* The order of the steps of system_health_check.
PcRank ==
    [p \in {"idle", "disks", "cpu", "memory", "disk", "status", "done"} |->
        CASE p = "idle" -> 0 [] p = "disks" -> 1 [] p = "cpu" -> 2
          [] p = "memory" -> 3 [] p = "disk" -> 4 [] p = "status" -> 5
          [] p = "done" -> 6]

ScoreSet == pc \in {"cpu", "memory", "disk", "status", "done"}

\* C7: in every report the score is an integer in [0,100]: it starts at
\* 100, is never increased, and each of the CPU, memory and disk conditions
\* decrements it at most once (each has one step, taken once and in order).
C7_ScoreBounded ==
    /\ [](ScoreSet => health_score \in 0..100)
    /\ [](Called("system_health_check") =>
              (result.health_score \in 0..100
               /\ result.health_score = health_score))
    /\ [][/\ pc' # pc => PcRank[pc'] = PcRank[pc] + 1
          /\ (pc = "disks" /\ pc' = "cpu") => health_score' = 100
          /\ (ScoreSet /\ health_score' # health_score)
                 => /\ health_score' < health_score
                    /\ pc \in {"cpu", "memory", "disk"}
                    /\ pc' # pc]_vars

\* C7 witness: a report with the lowest score, every condition having taken
\* its largest penalty once.
C7_Witness ==
    /\ Called("system_health_check")
    /\ result.health_score = 25
    /\ Len(result.issues) = 3

----------------------------------------------------------------------------
(* find_large_files, one loop iteration at a time *)

\* The call is the same as find_large_files above, taken one iteration of
\* its loops per step.  pc is the position in the function; locals holds the
\* function's variables, root/files the directory the inner loop is on, todo
\* the directories os.walk has still to yield (top-down, listing order) and
\* seen the files the inner loop has reached so far.

\* Lines 212 and 217 with ">" for ">=": one file too many is collected.
EnoughResultsLate(large_files, max_results) ==
    Len(large_files) > max_results * 2

\* Lines 212 and 217: the condition of both breaks.
EnoughResults(large_files, max_results) ==
    Len(large_files) >= max_results * 2

\* Lines 165-176: the initial assignments and the security check.
LargeStart(directory, min_size_mb, max_results) ==
    /\ pc = "idle"
    /\ result = NoResult
    /\ locals' = [tool |-> "find_large_files", directory |-> directory,
                  min_size_mb |-> min_size_mb, max_results |-> max_results,
                  large_files |-> <<>>, total_large_size |-> 0,
                  skipped |-> <<>>, visited |-> <<>>, stop |-> FALSE,
                  todo |-> <<directory>>, root |-> directory,
                  files |-> <<>>, seen |-> <<>>]
    /\ IF IsRestricted(directory)
       THEN /\ result' = [error |-> <<"Cannot scan system directory", directory>>]
            /\ pc' = "done"
       ELSE /\ result' = result
            /\ pc' = "walk"
    /\ UNCHANGED <<os_name, fs, disks, provider, system_stats, disk_analysis,
                   health_score, issues, recommendations, status>>

\* Line 178: os.walk yields its next directory, or ends the outer loop.  A
\* directory that cannot be listed yields nothing.
LargeWalkNext ==
    /\ pc = "walk"
    /\ IF locals.todo = <<>>
       THEN /\ pc' = "finish"
            /\ locals' = locals
       ELSE LET root == Head(locals.todo)
            IN  IF ~Listable(fs, root)
                THEN /\ pc' = "walk"
                     /\ locals' = [locals EXCEPT !.todo = Tail(@)]
                ELSE LET d    == fs.dirs[root.comps]
                         subs == [i \in 1..Len(d.dirs) |-> PathJoin(root, d.dirs[i])]
                     IN  /\ pc' = "files"
                         /\ locals' = [locals EXCEPT
                                         !.todo = subs \o Tail(@),
                                         !.root = root,
                                         !.files = d.files,
                                         !.visited = Append(@, root)]
    /\ UNCHANGED <<os_name, fs, disks, provider, result, system_stats,
                   disk_analysis, health_score, issues, recommendations, status>>

\* Lines 179-215: one iteration of "for file in files".
LargeFileStep ==
    /\ pc = "files"
    /\ locals.files # <<>>
    /\ LET file_path == PathJoin(locals.root, Head(locals.files))
           reached   == [locals EXCEPT !.seen = Append(@, file_path),
                                       !.files = Tail(@)]
           skip      == [reached EXCEPT !.skipped = Append(@, file_path)]
       IN  IF GetsizeFails(fs, file_path)
           THEN locals' = skip /\ pc' = pc
           ELSE IF fs.meta[file_path.comps].size > locals.min_size_mb * MB
           THEN IF GetmtimeFails(fs, file_path)
                THEN locals' = skip /\ pc' = pc
                ELSE LET collected ==
                             Append(locals.large_files,
                                    LargeFileRecord(fs, file_path))
                     IN  /\ locals' = [reached EXCEPT
                                         !.large_files = collected,
                                         !.total_large_size =
                                             @ + fs.meta[file_path.comps].size]
                         /\ pc' = IF EnoughResults(collected, locals.max_results)
                                  THEN "check" ELSE "files"
           ELSE locals' = reached /\ pc' = pc
    /\ UNCHANGED <<os_name, fs, disks, provider, result, system_stats,
                   disk_analysis, health_score, issues, recommendations, status>>

\* The inner loop runs out of files.
LargeFilesDone ==
    /\ pc = "files"
    /\ locals.files = <<>>
    /\ pc' = "check"
    /\ UNCHANGED <<os_name, fs, disks, provider, result, locals, system_stats,
                   disk_analysis, health_score, issues, recommendations, status>>

\* Lines 217-218: the break of the outer loop.
LargeOuterCheck ==
    /\ pc = "check"
    /\ IF EnoughResults(locals.large_files, locals.max_results)
       THEN /\ pc' = "finish"
            /\ locals' = [locals EXCEPT !.stop = TRUE]
       ELSE /\ pc' = "walk"
            /\ locals' = locals
    /\ UNCHANGED <<os_name, fs, disks, provider, result, system_stats,
                   disk_analysis, health_score, issues, recommendations, status>>

\* Lines 220-245: sort, truncate, recommend, return.
LargeFinish ==
    /\ pc = "finish"
    /\ LET top == SlicePrefix(SortDesc(locals.large_files), locals.max_results)
       IN  result' = [directory       |-> locals.directory,
                      min_size_mb     |-> locals.min_size_mb,
                      files_found     |-> Len(top),
                      total_size_gb   |-> TotalSizeGb(locals.total_large_size),
                      files           |-> top,
                      recommendations |->
                          LargeRecommendations(top, locals.total_large_size),
                      scan_timestamp  |-> Now]
    /\ pc' = "done"
    /\ UNCHANGED <<os_name, fs, disks, provider, locals, system_stats,
                   disk_analysis, health_score, issues, recommendations, status>>

NextLargeSteps ==
    \/ \E directory \in {Root, RootTrail, Missing, WinDir},
          min_size_mb \in MinSizeChoices,
          max_results \in 0..MaxResultsBound :
           LargeStart(directory, min_size_mb, max_results)
    \/ LargeWalkNext
    \/ LargeFileStep
    \/ LargeFilesDone
    \/ LargeOuterCheck
    \/ LargeFinish

SpecLargeSteps == InitLarge /\ [][NextLargeSteps]_vars

\* Every file of the tree under directory, in the order os.walk reaches
\* them: a directory's files in listing order, then its subdirectories.
RECURSIVE WalkOrder(_, _)
RECURSIVE WalkOrderDirs(_, _, _)
WalkOrder(f, root) ==
    IF ~Listable(f, root) THEN <<>>
    ELSE [i \in 1..Len(f.dirs[root.comps].files) |->
              PathJoin(root, f.dirs[root.comps].files[i])]
         \o WalkOrderDirs(f, root, f.dirs[root.comps].dirs)

WalkOrderDirs(f, root, dirs) ==
    IF dirs = <<>> THEN <<>>
    ELSE WalkOrder(f, PathJoin(root, Head(dirs)))
         \o WalkOrderDirs(f, root, Tail(dirs))

\* A qualifying file: its size is strictly greater than min_size_mb * 2^20
\* bytes (a file whose size or modification time cannot be read is skipped
\* like an absent one).
Qualifies(f, file_path, min_size_mb) ==
    /\ ~GetsizeFails(f, file_path)
    /\ f.meta[file_path.comps].size > min_size_mb * MB
    /\ ~GetmtimeFails(f, file_path)

QualifyingOf(f, paths, min_size_mb) ==
    SelectSeq(paths, LAMBDA p : Qualifies(f, p, min_size_mb))

IsPrefix(s, t) ==
    Len(s) <= Len(t) /\ \A i \in 1..Len(s) : s[i] = t[i]

PathsOf(records) == [i \in 1..Len(records) |-> records[i].path]

\* top holds the n largest (by reported size) of the records of pool: n of
\* them, or all when pool has fewer, each listed once, and no record left out
\* is larger than one kept.
IsLargestOf(top, pool, n) ==
    /\ Len(top) = Min(n, Len(pool))
    /\ Range(top) \subseteq Range(pool)
    /\ Cardinality(Range(top)) = Len(top)
    /\ \A r \in Range(top) : \A c \in Range(pool) \ Range(top) :
           r.size_mb >= c.size_mb

Walking == Called("find_large_files") /\ "seen" \in DOMAIN locals

\* The state part of C11, at every point of a call with max_results >= 1.
C11_Collected ==
    (Walking /\ locals.max_results >= 1) =>
        LET all       == WalkOrder(fs, locals.directory)
            qualified == QualifyingOf(fs, all, locals.min_size_mb)
        IN  /\ IsPrefix(locals.seen, all)
            /\ PathsOf(locals.large_files)
                   = QualifyingOf(fs, locals.seen, locals.min_size_mb)
            /\ \A i \in 1..Len(locals.large_files) :
                   locals.large_files[i]
                       = LargeFileRecord(fs, locals.large_files[i].path)
            /\ Len(locals.large_files) <= 2 * locals.max_results
            /\ (pc \in {"finish", "done"} /\ ~HasError(result)) =>
                   \/ Len(locals.large_files) = 2 * locals.max_results
                   \/ locals.seen = all
            /\ (pc = "done" /\ ~HasError(result)) =>
                   /\ IsLargestOf(result.files, locals.large_files,
                                  locals.max_results)
                   /\ Len(qualified) <= 2 * locals.max_results =>
                          IsLargestOf(result.files,
                                      [i \in 1..Len(qualified) |->
                                           LargeFileRecord(fs, qualified[i])],
                                      locals.max_results)

\* The step part of C11: once 2 * max_results files are collected, no step
\* reaches another file, yields another directory or collects anything.
C11_Stopped ==
    (Walking /\ locals.max_results >= 1
        /\ Len(locals.large_files) >= 2 * locals.max_results) =>
        /\ locals'.seen = locals.seen
        /\ locals'.visited = locals.visited
        /\ locals'.large_files = locals.large_files

\* C11: for max_results >= 1, find_large_files collects the qualifying files
\* (size strictly greater than min_size_mb * 2^20 bytes) in walk order, stops
\* the whole walk as soon as 2 * max_results are collected and never holds
\* more than that; the returned files are the max_results largest of the
\* collected ones, and when the tree holds at most 2 * max_results qualifying
\* files they are the max_results largest qualifying files of the whole tree.
C11_EarlyStop == [](C11_Collected) /\ [][C11_Stopped]_vars

\* C11 witness: a call with max_results >= 1 returned after stopping early
\* (2 * max_results collected, files of the tree never reached, a directory
\* never yielded), on a tree that holds no more than 2 * max_results
\* qualifying files besides a file that does not qualify, and the file
\* returned first was not the one collected first.
C11_Witness ==
    /\ Walking /\ pc = "done" /\ ~HasError(result)
    /\ locals.max_results >= 1
    /\ Len(locals.large_files) = 2 * locals.max_results
    /\ Len(locals.seen) < Len(WalkOrder(fs, locals.directory))
    /\ Len(locals.visited) < Cardinality(DOMAIN fs.dirs)
    /\ Len(QualifyingOf(fs, WalkOrder(fs, locals.directory), locals.min_size_mb))
           <= 2 * locals.max_results
    /\ Len(result.files) = locals.max_results
    /\ result.files[1].size_mb > locals.large_files[1].size_mb


============================================================================
